---------------------------- MODULE Spec2Model ----------------------------
(***************************************************************************)
(* A model of convert_task.py: main walks the task directories, and for    *)
(* each one process_task reads the step log, extract_sections slices each  *)
(* response into thought / action / code, build_actions scans the code     *)
(* line by line for pyautogui calls, and main finally writes one line per  *)
(* task.                                                                   *)
(*                                                                         *)
(* Text is modelled lexically.  A response is a sequence of items, one per *)
(* line of text: a "## Thought:" header, a "## Action:" header, a ```      *)
(* fence, a line that starts with '#', a blank line, the fence tag         *)
(* (python / code), or a line of text of the form  mod.func(body)  .  The  *)
(* body of a line is a sequence of tokens (number literals, x=<num>,       *)
(* y=<num>, a comma, the two quote characters, a letter, a right           *)
(* parenthesis); the closing parenthesis of the call follows the body.     *)
(* Number literals carry their value in hundredths, so 0.5 is 50.          *)
(***************************************************************************)
EXTENDS Integers, Sequences, FiniteSets, TLC

VARIABLES
    fs,              \* ROOT_DIR: entry name -> file, or directory with its files
    todo,            \* main: the entries ROOT_DIR.iterdir() has not yielded yet
    seen,            \* main: the entries yielded so far, in order
    tasks,           \* main: tasks
    outFile,         \* the contents of OUT_FILE, a sequence of task lines
    pc,              \* where the program is
    err,             \* the exception that ended the run, "none" while running
    task_id,         \* process_task: task_id
    instruction,     \* process_task: instruction
    steps,           \* process_task: steps
    rowIdx,          \* process_task: the next line of traj.jsonl to read
    thought,         \* process_task: thought
    action_desc,     \* process_task: action_desc
    code_block,      \* process_task: code_block
    lines,           \* build_actions: lines
    idx,             \* build_actions: the position of the for loop in lines
    mouse_action,    \* build_actions: mouse_action
    keyboard_action, \* build_actions: keyboard_action
    start_coords     \* build_actions: start_coords

vars == <<fs, todo, seen, tasks, outFile, pc, err, task_id, instruction, steps,
          rowIdx, thought, action_desc, code_block, lines, idx, mouse_action,
          keyboard_action, start_coords>>

mainVars == <<fs, todo, seen, tasks, outFile>>
taskVars == <<task_id, instruction, steps, rowIdx>>
rowVars == <<thought, action_desc, code_block>>
scanVars == <<lines, idx, mouse_action, keyboard_action, start_coords>>

---------------------------------------------------------------------------
(* Tokens and items *)

Tok(t, v) == [t |-> t, v |-> v]
Comma == Tok(",", 0)
SQuote == Tok("'", 0)
DQuote == Tok("\"", 0)
RParen == Tok(")", 0)
Letter == Tok("a", 0)
Dec(h) == Tok("dec", h)          \* a literal with a decimal point, h hundredths
IntLit(n) == Tok("int", 100 * n) \* a literal without one
NamedX(h) == Tok("x=", h)        \* x=<num>
NamedY(h) == Tok("y=", h)        \* y=<num>

Item(k, mod, func, body) == [k |-> k, mod |-> mod, func |-> func, body |-> body]
ThoughtHdr == Item("hT", "", "", <<>>)   \* ## Thought:\n
ActionHdr == Item("hA", "", "", <<>>)    \* ## Action:\n
Fence == Item("fence", "", "", <<>>)     \* ```
HashLine == Item("hash", "", "", <<>>)   \* a line that starts with '#'
Blank == Item("ws", "", "", <<>>)        \* a blank line
Tag == Item("tag", "", "", <<>>)         \* the word python (or code)
Call(mod, func, body) == Item("line", mod, func, body)
Prose(word) == Item("line", "", word, <<>>)  \* a line of plain words
Terminate == Call("computer", "terminate", <<>>)

None == [type |-> "None"]
NoCoord == [null |-> TRUE, v |-> 0]
Coord(n) == [null |-> FALSE, v |-> n]

---------------------------------------------------------------------------
(* Helpers on sequences *)

Min(S) == CHOOSE m \in S : \A n \in S : m <= n
Max(S) == CHOOSE m \in S : \A n \in S : m >= n
Slice(s, a, b) == IF a > b THEN <<>> ELSE SubSeq(s, a, b)

IsBlankItem(it) == it.k = "ws"

\* str.strip() of a text: the blank lines at both ends are dropped
Strip(s) ==
    LET keep == {i \in 1..Len(s) : ~IsBlankItem(s[i])}
    IN IF keep = {} THEN <<>> ELSE SubSeq(s, Min(keep), Max(keep))

\* int(t) for a float t = n / d: truncation toward zero
Trunc(n, d) == IF n >= 0 THEN n \div d ELSE -((-n) \div d)

---------------------------------------------------------------------------
(* extract_sections *)

\* [^#`]: a line with neither a '#' nor a backtick in it
IsPlain(it) == it.k \in {"line", "ws", "tag"}

\* ##\s*<Header>:\s*\n([^#`]+) searched in resp; group 1, stripped
HeaderSection(resp, hdr) ==
    LET at == {i \in 1..Len(resp) - 1 : resp[i].k = hdr /\ IsPlain(resp[i + 1])}
    IN IF at = {} THEN <<>>
       ELSE LET i == Min(at)
                stop == {j \in i + 1..Len(resp) : ~IsPlain(resp[j])}
                last == IF stop = {} THEN Len(resp) ELSE Min(stop) - 1
            IN Strip(SubSeq(resp, i + 1, last))

\* ```(?:python|code)?\s*([^`]+?)``` searched in resp; group 1, stripped
CodeSection(resp) ==
    LET fences == {i \in 1..Len(resp) : resp[i].k = "fence"}
        open == {i \in fences : \E j \in fences : j > i + 1 /\
                                    \A m \in i + 1..j - 1 : m \notin fences}
    IN IF open = {} THEN <<>>
       ELSE LET i == Min(open)
                j == Min({m \in fences : m > i})
                inner == SubSeq(resp, i + 1, j - 1)
            IN IF inner[1].k = "tag" /\ Len(inner) > 1
               THEN Strip(Tail(inner))
               ELSE Strip(inner)

extract_sections(resp) ==
    <<HeaderSection(resp, "hT"), HeaderSection(resp, "hA"), CodeSection(resp)>>

---------------------------------------------------------------------------
(* _parse_coords *)

IsNum(tk) == tk.t \in {"int", "dec"}
EndsInNum(tk) == tk.t \in {"int", "dec", "x=", "y="}

\* NAMED_COORD.search(args): the positions where x=<num> , y=<num> starts
NamedAt(args) ==
    {i \in 1..Len(args) - 2 :
        args[i].t = "x=" /\ args[i + 1] = Comma /\ args[i + 2].t = "y="}

\* COORD_PAIR.search(args): the positions where <num> , <num> starts
PairAt(args) ==
    {i \in 1..Len(args) - 2 :
        EndsInNum(args[i]) /\ args[i + 1] = Comma /\ IsNum(args[i + 2])}

CanvasW == 1920
CanvasH == 1080

\* int(1920*float(g)) and int(1080*float(g)) for a literal g of h hundredths
ScaleX(h) == Trunc(CanvasW * h, 100)
ScaleY(h) == Trunc(CanvasH * h, 100)

_parse_coords(args) ==
    LET m == IF NamedAt(args) # {} THEN NamedAt(args) ELSE PairAt(args)
    IN IF m = {} THEN <<NoCoord, NoCoord>>
       ELSE LET i == Min(m)
            IN <<Coord(ScaleX(args[i].v)), Coord(ScaleY(args[i + 2].v))>>

---------------------------------------------------------------------------
(* build_actions: the call shapes *)

ClickFamily == {"click", "rightClick", "doubleClick"}
AnchorFamily == {"moveTo", "click"}
WriteFamily == {"write", "typewrite"}

\* re.match(r"pyautogui\.(f1|f2|..)\(([^)]*)\)", line)
Matches(line, funcs) ==
    line.k = "line" /\ line.mod = "pyautogui" /\ line.func \in funcs

\* group ([^)]*): the body up to its first right parenthesis
Args(line) ==
    LET rp == {i \in 1..Len(line.body) : line.body[i] = RParen}
    IN IF rp = {} THEN line.body ELSE Slice(line.body, 1, Min(rp) - 1)

\* the if / elif chain of the loop body: the first pattern that matches
Branch(line) ==
    IF Matches(line, ClickFamily) THEN "click"
    ELSE IF Matches(line, {"scroll"}) THEN "scroll"
    ELSE IF Matches(line, AnchorFamily) THEN "anchor"
    ELSE IF Matches(line, {"dragTo"}) THEN "dragTo"
    ELSE IF Matches(line, WriteFamily) THEN "write"
    ELSE IF Matches(line, {"press"}) THEN "press"
    ELSE "none"

\* parts = [p.strip() for p in args.split(",")]; parts[0]
FirstPart(args) ==
    LET c == {i \in 1..Len(args) : args[i] = Comma}
    IN IF c = {} THEN args ELSE Slice(args, 1, Min(c) - 1)

\* int(parts[0]) succeeds on one integer literal and raises ValueError otherwise
IntOk(part) == Len(part) = 1 /\ part[1].t = "int"
IntOf(part) == Trunc(part[1].v, 100)

IsQuote(tk) == tk \in {SQuote, DQuote}

\* re.search(r"['\"](.+?)['\"]", args): the opening quotes that have a closing
\* quote at least one character later
QuotedAt(args) ==
    {i \in 1..Len(args) :
        IsQuote(args[i]) /\ \E j \in i + 2..Len(args) : IsQuote(args[j])}

\* .group(1) of that search: lazily up to the first quote that can close it
QuotedText(args) ==
    LET i == Min(QuotedAt(args))
        j == Min({m \in i + 2..Len(args) : IsQuote(args[m])})
    IN SubSeq(args, i + 1, j - 1)

\* `if start_coords and end_coords`: None is false, a 2-tuple is true
Truthy(t) == t # <<>>

ClickRecord(line) ==
    LET c == _parse_coords(Args(line))
    IN [type |-> line.func, x |-> c[1], y |-> c[2]]

ScrollRecord(line) ==
    LET c == _parse_coords(Args(line))
    IN [type |-> "scroll", x |-> c[1], y |-> c[2],
        clicks |-> IntOf(FirstPart(Args(line)))]

DragRecord(start, end) ==
    [type |-> "drag", startX |-> start[1], startY |-> start[2],
     endX |-> end[1], endY |-> end[2]]

---------------------------------------------------------------------------
(* build_actions: one iteration of `for line in lines` per action *)

Scanning == pc = "scan" /\ idx <= Len(lines)

Raise(e) == pc' = "aborted" /\ err' = e /\ idx' = idx

\* a variant of ClickLine in which the first click of a block wins
ClickLineKeepFirst ==
    /\ Scanning /\ Branch(lines[idx]) = "click"
    /\ mouse_action' = IF mouse_action = None THEN ClickRecord(lines[idx])
                       ELSE mouse_action
    /\ idx' = idx + 1
    /\ UNCHANGED <<mainVars, taskVars, rowVars, pc, err, lines,
                   keyboard_action, start_coords>>

ClickLine ==
    /\ Scanning /\ Branch(lines[idx]) = "click"
    /\ mouse_action' = ClickRecord(lines[idx])
    /\ idx' = idx + 1
    /\ UNCHANGED <<mainVars, taskVars, rowVars, pc, err, lines,
                   keyboard_action, start_coords>>

ScrollLine ==
    /\ Scanning /\ Branch(lines[idx]) = "scroll"
    /\ IF IntOk(FirstPart(Args(lines[idx])))
       THEN /\ mouse_action' = ScrollRecord(lines[idx])
            /\ idx' = idx + 1
            /\ UNCHANGED <<pc, err>>
       ELSE /\ Raise("ValueError")
            /\ UNCHANGED mouse_action
    /\ UNCHANGED <<mainVars, taskVars, rowVars, lines, keyboard_action,
                   start_coords>>

AnchorLine ==
    /\ Scanning /\ Branch(lines[idx]) = "anchor"
    /\ start_coords' = _parse_coords(Args(lines[idx]))
    /\ idx' = idx + 1
    /\ UNCHANGED <<mainVars, taskVars, rowVars, pc, err, lines, mouse_action,
                   keyboard_action>>

DragLine ==
    /\ Scanning /\ Branch(lines[idx]) = "dragTo"
    /\ LET end_coords == _parse_coords(Args(lines[idx]))
       IN mouse_action' = IF Truthy(start_coords) /\ Truthy(end_coords)
                          THEN DragRecord(start_coords, end_coords)
                          ELSE mouse_action
    /\ idx' = idx + 1
    /\ UNCHANGED <<mainVars, taskVars, rowVars, pc, err, lines,
                   keyboard_action, start_coords>>

WriteLine ==
    /\ Scanning /\ Branch(lines[idx]) = "write"
    /\ IF QuotedAt(Args(lines[idx])) # {}
       THEN /\ keyboard_action' =
                   [type |-> "type", text |-> QuotedText(Args(lines[idx]))]
            /\ idx' = idx + 1
            /\ UNCHANGED <<pc, err>>
       ELSE /\ Raise("AttributeError")
            /\ UNCHANGED keyboard_action
    /\ UNCHANGED <<mainVars, taskVars, rowVars, lines, mouse_action,
                   start_coords>>

PressLine ==
    /\ Scanning /\ Branch(lines[idx]) = "press"
    /\ IF QuotedAt(Args(lines[idx])) # {}
       THEN /\ keyboard_action' =
                   [type |-> "press", key |-> QuotedText(Args(lines[idx]))]
            /\ idx' = idx + 1
            /\ UNCHANGED <<pc, err>>
       ELSE /\ Raise("AttributeError")
            /\ UNCHANGED keyboard_action
    /\ UNCHANGED <<mainVars, taskVars, rowVars, lines, mouse_action,
                   start_coords>>

OtherLine ==
    /\ Scanning /\ Branch(lines[idx]) = "none"
    /\ idx' = idx + 1
    /\ UNCHANGED <<mainVars, taskVars, rowVars, pc, err, lines, mouse_action,
                   keyboard_action, start_coords>>

---------------------------------------------------------------------------
(* The files *)

File == [kind |-> "file"]
\* cfg and traj are <<>> when the file is missing, <<contents>> otherwise
Dir(cfg, traj) == [kind |-> "dir", cfg |-> cfg, traj |-> traj]
Row(n, resp, shot) == [step_num |-> n, response |-> resp, screenshot_file |-> shot]
BadJson == [bad |-> TRUE]       \* a line json.loads rejects

\* str.strip() of a configuration string, a sequence of characters
StripSpaces(p) ==
    LET keep == {i \in 1..Len(p) : p[i] # " "}
    IN IF keep = {} THEN <<>> ELSE SubSeq(p, Min(keep), Max(keep))

\* cfg.get("instruction") or cfg.get("prompt", "").strip()
Instruction(cfg) ==
    LET i == IF "instruction" \in DOMAIN cfg THEN cfg.instruction ELSE <<>>
        p == IF "prompt" \in DOMAIN cfg THEN cfg.prompt ELSE <<>>
    IN IF i # <<>> THEN i ELSE StripSpaces(p)

\* "computer.terminate" in code_block
HasSentinel(code) ==
    \E i \in 1..Len(code) : code[i].mod = "computer" /\ code[i].func = "terminate"

Done == <<Prose("DONE")>>

\* lines = [ln.strip() for ln in code.splitlines() if ln.strip()]
NonBlank(code) == SelectSeq(code, LAMBDA it : ~IsBlankItem(it))

\* the step dict of process_task, with its optional keys
StepRecord(row, tid, th, act, code, m, k) ==
    LET base == [stepNum |-> row.step_num, thought |-> th, action |-> act,
                 code |-> code, response |-> Strip(row.response),
                 image |-> <<"./static/trajs", tid, row.screenshot_file>>]
        withMouse == IF m # None THEN base @@ [mouseAction |-> m] ELSE base
    IN IF k # None THEN withMouse @@ [keyboardAction |-> k] ELSE withMouse

\* a variant of StepAction that keeps a non-empty Action text
StepActionKeep(code, desc) ==
    IF HasSentinel(code) /\ desc = <<>> THEN Done ELSE desc

\* `if "computer.terminate" in code_block: action_desc = "DONE"`
StepAction(code, desc) == IF HasSentinel(code) THEN Done ELSE desc

\* a variant of AddStep that puts the newest step first
AddStepFront(st, step) == <<step>> \o st

\* steps.append(step)
AddStep(st, step) == Append(st, step)

TaskRecord(tid, st, ins) == [id |-> tid, steps |-> st, instruction |-> ins]

PriorOutput == <<TaskRecord("old", <<>>, <<>>)>>

---------------------------------------------------------------------------
(* main and process_task *)

Abort(e) == pc' = "aborted" /\ err' = e

\* main: `if not item.is_dir(): continue`
SkipNonDir ==
    /\ pc = "iter"
    /\ \E n \in todo :
        /\ fs[n].kind = "file"
        /\ todo' = todo \ {n}
        /\ seen' = Append(seen, n)
    /\ UNCHANGED <<fs, tasks, outFile, pc, err, taskVars, rowVars, scanVars>>

\* main: `if not (item / "traj.jsonl").exists(): continue`
SkipNoTraj ==
    /\ pc = "iter"
    /\ \E n \in todo :
        /\ fs[n].kind = "dir" /\ fs[n].traj = <<>>
        /\ todo' = todo \ {n}
        /\ seen' = Append(seen, n)
    /\ UNCHANGED <<fs, tasks, outFile, pc, err, taskVars, rowVars, scanVars>>

\* main calls process_task(item), which reads config.json and opens traj.jsonl
BeginTask ==
    /\ pc = "iter"
    /\ \E n \in todo :
        /\ fs[n].kind = "dir" /\ fs[n].traj # <<>>
        /\ todo' = todo \ {n}
        /\ seen' = Append(seen, n)
        /\ task_id' = n
        /\ instruction' = IF fs[n].cfg = <<>> THEN <<>>
                          ELSE Instruction(fs[n].cfg[1])
    /\ steps' = <<>>
    /\ rowIdx' = 1
    /\ pc' = "rows"
    /\ UNCHANGED <<fs, tasks, outFile, err, rowVars, scanVars>>

Traj == fs[task_id].traj[1]

\* process_task: the next line of the log, up to the call of build_actions
ReadRow ==
    /\ pc = "rows" /\ rowIdx <= Len(Traj)
    /\ LET row == Traj[rowIdx]
       IN IF "bad" \in DOMAIN row
          THEN Abort("JSONDecodeError") /\ UNCHANGED <<rowVars, scanVars>>
          ELSE IF {"step_num", "response"} \subseteq DOMAIN row
          THEN LET sec == extract_sections(row.response)
               IN /\ thought' = sec[1]
                  /\ action_desc' = sec[2]
                  /\ code_block' = sec[3]
                  /\ lines' = NonBlank(sec[3])
                  /\ idx' = 1
                  /\ mouse_action' = None
                  /\ keyboard_action' = None
                  /\ start_coords' = <<>>
                  /\ pc' = "scan"
                  /\ UNCHANGED err
          ELSE Abort("KeyError") /\ UNCHANGED <<rowVars, scanVars>>
    /\ UNCHANGED <<mainVars, taskVars>>

\* process_task: build_actions has returned; the step is built and appended
EmitStep ==
    /\ pc = "scan" /\ idx > Len(lines)
    /\ LET row == Traj[rowIdx]
           act == StepAction(code_block, action_desc)
       IN IF "screenshot_file" \in DOMAIN row
          THEN /\ steps' = AddStep(steps, StepRecord(row, task_id, thought, act,
                                       code_block, mouse_action, keyboard_action))
               /\ rowIdx' = rowIdx + 1
               /\ pc' = "rows"
               /\ UNCHANGED err
          ELSE Abort("KeyError") /\ UNCHANGED <<steps, rowIdx>>
    /\ thought' = <<>> /\ action_desc' = <<>> /\ code_block' = <<>>
    /\ lines' = <<>> /\ idx' = 1
    /\ mouse_action' = None /\ keyboard_action' = None /\ start_coords' = <<>>
    /\ UNCHANGED <<mainVars, task_id, instruction>>

\* a variant of ReturnTask that drops a task without steps
ReturnTaskSkipEmpty ==
    /\ pc = "rows" /\ rowIdx > Len(Traj)
    /\ tasks' = IF steps = <<>> THEN tasks
                ELSE Append(tasks, TaskRecord(task_id, steps, instruction))
    /\ pc' = "iter"
    /\ steps' = <<>> /\ rowIdx' = 1 /\ instruction' = <<>>
    /\ UNCHANGED <<fs, todo, seen, outFile, err, task_id, rowVars, scanVars>>

\* a variant of ReturnTask that writes each task's line as soon as it is built
ReturnTaskStreaming ==
    /\ pc = "rows" /\ rowIdx > Len(Traj)
    /\ tasks' = Append(tasks, TaskRecord(task_id, steps, instruction))
    /\ outFile' = (IF tasks = <<>> THEN <<>> ELSE outFile)
                      \o <<TaskRecord(task_id, steps, instruction)>>
    /\ pc' = "iter"
    /\ steps' = <<>> /\ rowIdx' = 1 /\ instruction' = <<>>
    /\ UNCHANGED <<fs, todo, seen, err, task_id, rowVars, scanVars>>

\* process_task returns and main appends the task
ReturnTask ==
    /\ pc = "rows" /\ rowIdx > Len(Traj)
    /\ tasks' = Append(tasks, TaskRecord(task_id, steps, instruction))
    /\ pc' = "iter"
    /\ steps' = <<>> /\ rowIdx' = 1 /\ instruction' = <<>>
    /\ UNCHANGED <<fs, todo, seen, outFile, err, task_id, rowVars, scanVars>>

\* main: open(OUT_FILE, "w") truncates the file
OpenOut ==
    /\ pc = "iter" /\ todo = {}
    /\ outFile' = <<>>
    /\ pc' = "write"
    /\ UNCHANGED <<fs, todo, seen, tasks, err, taskVars, rowVars, scanVars>>

\* main: fout.write(json.dumps(task) + "\n")
WriteTask ==
    /\ pc = "write" /\ Len(outFile) < Len(tasks)
    /\ outFile' = Append(outFile, tasks[Len(outFile) + 1])
    /\ UNCHANGED <<fs, todo, seen, tasks, pc, err, taskVars, rowVars, scanVars>>

\* main: the file is closed and the completion notice printed
Finish ==
    /\ pc = "write" /\ Len(outFile) = Len(tasks)
    /\ pc' = "done"
    /\ UNCHANGED <<mainVars, err, taskVars, rowVars, scanVars>>

Next ==
    \/ SkipNonDir \/ SkipNoTraj \/ BeginTask \/ ReadRow
    \/ ClickLine \/ ScrollLine \/ AnchorLine \/ DragLine
    \/ WriteLine \/ PressLine \/ OtherLine
    \/ EmitStep \/ ReturnTask \/ OpenOut \/ WriteTask \/ Finish

---------------------------------------------------------------------------
(* Inputs *)

MaxRows == 2      \* lines of a step log
MaxLines == 3     \* lines of a code block
MaxArgLen == 4    \* tokens of an argument list
MaxRespLen == 5   \* items of a response

SeqsUpTo(S, n) == UNION {[1..m -> S] : m \in 0..n}

Py(func, body) == Call("pyautogui", func, body)

\* Thought, Action and a tagged code block with a click and a write
Resp1 ==
    <<ThoughtHdr, Prose("think"), ActionHdr, Prose("act"), Fence, Tag,
      Py("click", <<NamedX(50), Comma, NamedY(50)>>),
      Py("write", <<DQuote, Letter, DQuote>>), Blank, Fence>>

\* Action and a code block that drags, scrolls, presses a key and terminates
Resp2 ==
    <<Blank, ActionHdr, Prose("act"), Fence,
      Py("moveTo", <<Dec(10), Comma, Dec(20)>>),
      Py("dragTo", <<Dec(30), Comma, Dec(40)>>),
      Py("scroll", <<IntLit(-5)>>),
      Py("press", <<SQuote, Letter, SQuote>>),
      Terminate, Fence>>

\* a code block whose press call has no quoted key
Resp3 == <<ActionHdr, Prose("act"), HashLine, Fence, Py("press", <<>>), Fence>>

Names == {"a", "b"}
CfgOpt == {<<>>, <<[instruction |-> <<"i">>]>>, <<[prompt |-> <<" ", "p", " ">>]>>}
RowSet == {Row(1, Resp1, "s1.png"), Row(0, Resp2, "s0.png"), BadJson}
\* a missing log, or a log of up to n lines
TrajOpt(n) == {<<>>} \cup {<<log>> : log \in SeqsUpTo(RowSet, n)}
\* a file, or a directory with or without config.json and traj.jsonl
EntrySet(n) == {File} \cup {Dir(c, t) : c \in CfgOpt, t \in TrajOpt(n)}

\* a root directory that holds one task with a one-line log
OneTask(row) == [n \in {"a"} |-> Dir(<<>>, <<<<row>>>>)]

\* the lines of the code blocks that are scanned
LineSet ==
    {Py("click", <<NamedX(50), Comma, NamedY(50)>>),
     Py("rightClick", <<Dec(10), Comma, Dec(20)>>),
     Py("doubleClick", <<>>),
     Py("scroll", <<IntLit(-5), Comma, NamedX(50), Comma, NamedY(50)>>),
     Py("scroll", <<NamedX(50), Comma, NamedY(50)>>),
     Py("moveTo", <<Dec(10), Comma, Dec(20)>>),
     Py("moveTo", <<>>),
     Py("dragTo", <<Dec(30), Comma, Dec(40)>>),
     Py("write", <<DQuote, Letter, DQuote>>),
     Py("press", <<SQuote, Letter, SQuote>>),
     Py("press", <<>>),
     Call("time", "sleep", <<IntLit(1)>>),
     Blank}

Fenced(code) == <<Fence>> \o code \o <<Fence>>

\* root directories that exercise the directory walk
SampleRoots ==
    {[n \in Names |-> IF n = "a" THEN File ELSE Dir(<<>>, <<>>)],
     [n \in Names |-> IF n = "a" THEN Dir(<<>>, <<<<Row(1, Resp1, "s1.png")>>>>)
                      ELSE Dir(<<>>, <<<<Row(0, Resp2, "s0.png")>>>>)]}

\* root directories whose second task cannot be processed
FailingRoots ==
    {[n \in Names |-> IF n = "a" THEN Dir(<<>>, <<<<Row(1, Resp1, "s1.png")>>>>)
                      ELSE Dir(<<>>, <<<<bad>>>>)] :
        bad \in {Row(2, Resp3, "s2.png"),
                 [step_num |-> 2, response |-> Resp1],
                 [response |-> Resp1, screenshot_file |-> "s2.png"]}}

ScanRoots(n) ==
    {OneTask(Row(0, Fenced(code), "s0.png")) : code \in SeqsUpTo(LineSet, n)}

ArgTokens ==
    {Dec(50), Dec(150), IntLit(-5), NamedX(50), NamedY(50), Comma, SQuote,
     DQuote, Letter, RParen}
ArgFuncs == {"click", "scroll", "moveTo", "dragTo", "write", "press", "hotkey"}

ArgRoots(n) ==
    {OneTask(Row(0, Fenced(<<Py(f, body)>>), "s0.png")) :
        f \in ArgFuncs, body \in SeqsUpTo(ArgTokens, n)}

RespItems == {ThoughtHdr, ActionHdr, Fence, Blank, Tag, Prose("p"), Terminate}

RespRoots(n) ==
    {OneTask(Row(0, resp, "s0.png")) : resp \in SeqsUpTo(RespItems, n)}

InitWith(roots) ==
    /\ fs \in roots
    /\ todo = DOMAIN fs
    /\ seen = <<>>
    /\ tasks = <<>>
    /\ outFile = PriorOutput
    /\ pc = "iter"
    /\ err = "none"
    /\ task_id = ""
    /\ instruction = <<>>
    /\ steps = <<>>
    /\ rowIdx = 1
    /\ thought = <<>>
    /\ action_desc = <<>>
    /\ code_block = <<>>
    /\ lines = <<>>
    /\ idx = 1
    /\ mouse_action = None
    /\ keyboard_action = None
    /\ start_coords = <<>>

Init == InitWith([Names -> EntrySet(MaxRows)] \cup FailingRoots)
InitScan == InitWith(ScanRoots(MaxLines) \cup SampleRoots)
InitArgs == InitWith(ArgRoots(MaxArgLen) \cup SampleRoots)
InitResp == InitWith(RespRoots(MaxRespLen) \cup SampleRoots)

\* the whole program on small root directories
Spec == Init /\ [][Next]_vars
\* one task whose single response is a code block of up to MaxLines lines
SpecScan == InitScan /\ [][Next]_vars
\* one task whose code block is one call with any argument list
SpecArgs == InitArgs /\ [][Next]_vars
\* one task whose single response is any sequence of up to MaxRespLen items
SpecResp == InitResp /\ [][Next]_vars

---------------------------------------------------------------------------
(* Properties of build_actions, on the code blocks of SpecScan *)

\* build_actions has scanned every line and is about to return
ScanDone == pc = "scan" /\ idx > Len(lines)

\* the lines before line i that record a drag start: the moveTo lines
StartsBefore(ls, i) == {j \in 1..i - 1 : Matches(ls[j], {"moveTo"})}

\* the lines that produce a mouse record
MouseProducers(ls) ==
    {i \in 1..Len(ls) :
        \/ Matches(ls[i], ClickFamily)
        \/ Matches(ls[i], {"scroll"})
        \/ Matches(ls[i], {"dragTo"}) /\ StartsBefore(ls, i) # {}}

\* the lines that produce a keyboard record
KeyProducers(ls) ==
    {i \in 1..Len(ls) : Matches(ls[i], WriteFamily) \/ Matches(ls[i], {"press"})}

\* the record line i produces on its own
MouseRecordOf(ls, i) ==
    IF Matches(ls[i], ClickFamily) THEN ClickRecord(ls[i])
    ELSE IF Matches(ls[i], {"scroll"}) THEN ScrollRecord(ls[i])
    ELSE DragRecord(_parse_coords(Args(ls[Max(StartsBefore(ls, i))])),
                    _parse_coords(Args(ls[i])))

KeyRecordOf(ls, i) ==
    IF Matches(ls[i], WriteFamily)
    THEN [type |-> "type", text |-> QuotedText(Args(ls[i]))]
    ELSE [type |-> "press", key |-> QuotedText(Args(ls[i]))]

\* C9: when build_actions returns, the mouse action is the record of the last
\* line that produces a mouse record (a click-family line, a scroll line, or a
\* dragTo line with a drag start pending) and None when there is no such line,
\* and the keyboard action is the record of the last write/typewrite/press line
\* and None when there is none: one record of each kind at most, the last one
\* wins, a dragTo without a pending start changes nothing, and lines of one
\* kind never touch the action of the other kind.
C9_LastProducerWins ==
    ScanDone =>
        /\ mouse_action =
              IF MouseProducers(lines) = {} THEN None
              ELSE MouseRecordOf(lines, Max(MouseProducers(lines)))
        /\ keyboard_action =
              IF KeyProducers(lines) = {} THEN None
              ELSE KeyRecordOf(lines, Max(KeyProducers(lines)))

\* a returned scan in which a later mouse line overwrote an earlier one and a
\* keyboard line was seen as well
C9_Witness ==
    /\ ScanDone
    /\ Cardinality(MouseProducers(lines)) >= 2
    /\ KeyProducers(lines) # {}
    /\ mouse_action # None /\ keyboard_action # None

\* the scan of a dragTo line that sets a drag record
DragProduced ==
    /\ Scanning /\ Matches(lines[idx], {"dragTo"})
    /\ idx' = idx + 1
    /\ mouse_action'.type = "drag"

\* C2: a dragTo line produces a drag record only when the line directly before
\* it in the block is a drag-anchor line (moveTo or click), and every scan
\* starts with no drag start pending.
C2_DragNeedsAdjacentAnchor ==
    [][/\ DragProduced => idx > 1 /\ Matches(lines[idx - 1], AnchorFamily)
       /\ (pc = "rows" /\ pc' = "scan") => start_coords' = <<>>]_vars

\* C8: the scan of a plain click line remembers the click's coordinates as the
\* pending drag start.
C8_ClickIsAnchor ==
    [][(Scanning /\ Matches(lines[idx], {"click"}) /\ idx' = idx + 1)
          => start_coords' = _parse_coords(Args(lines[idx]))]_vars

---------------------------------------------------------------------------
(* Properties of the argument parsing, on the calls of SpecArgs *)

\* C1: build_actions never raises: a scroll call without an integer first
\* argument and a write/typewrite/press call without a quoted literal leave the
\* actions absent or unchanged.
C1_ScanNeverRaises == err \notin {"ValueError", "AttributeError"}

InCanvasX(c) == c.null \/ (0 <= c.v /\ c.v <= CanvasW)
InCanvasY(c) == c.null \/ (0 <= c.v /\ c.v <= CanvasH)

\* C6: every non-null coordinate of a mouse action lies inside the canvas,
\* 0..1920 across and 0..1080 down.
C6_CoordsInCanvas ==
    /\ mouse_action.type \in ClickFamily \cup {"scroll"} =>
          InCanvasX(mouse_action.x) /\ InCanvasY(mouse_action.y)
    /\ mouse_action.type = "drag" =>
          /\ InCanvasX(mouse_action.startX) /\ InCanvasY(mouse_action.startY)
          /\ InCanvasX(mouse_action.endX) /\ InCanvasY(mouse_action.endY)

\* an argument list that is one string literal: a quote, any characters but
\* that quote, the same quote again
IsLiteral(body) ==
    /\ Len(body) >= 2
    /\ IsQuote(body[1])
    /\ body[Len(body)] = body[1]
    /\ \A i \in 2..Len(body) - 1 : body[i] # body[1]

\* C7: the scan of a write/typewrite line whose argument is one string literal
\* sets the keyboard action to a type record with the literal's whole content.
C7_TypedTextVerbatim ==
    [][(Scanning /\ Matches(lines[idx], WriteFamily) /\ IsLiteral(lines[idx].body))
          => keyboard_action' =
                [type |-> "type",
                 text |-> Slice(lines[idx].body, 2, Len(lines[idx].body) - 1)]]_vars

---------------------------------------------------------------------------
(* Properties of process_task and main, on the root directories of Spec *)

HasTraj(e) == e.kind = "dir" /\ e.traj # <<>>
LogOf(n) == fs[n].traj[1]
Ids(ts) == [i \in 1..Len(ts) |-> ts[i].id]

\* the i-th step is built from the i-th record of the log
StepsFollowLog(st, log) ==
    \A i \in 1..Len(st) :
        /\ st[i].stepNum = log[i].step_num
        /\ st[i].response = Strip(log[i].response)
        /\ st[i].image[3] = log[i].screenshot_file

\* C3: the steps of every task process_task returned are as many as the lines
\* of its log, the i-th built from the i-th line, and the lines of the output
\* are the task directories in the order iterdir yielded them.
C3_OrderPreserved ==
    /\ \A k \in 1..Len(tasks) :
          /\ Len(tasks[k].steps) = Len(LogOf(tasks[k].id))
          /\ StepsFollowLog(tasks[k].steps, LogOf(tasks[k].id))
    /\ pc = "done" =>
          Ids(outFile) = SelectSeq(seen, LAMBDA n : HasTraj(fs[n]))

\* a finished run that wrote two tasks, the first with two steps whose step
\* numbers are not ascending
C3_Witness ==
    /\ pc = "done" /\ Len(outFile) = 2
    /\ Len(outFile[1].steps) = 2
    /\ outFile[1].steps[1].stepNum > outFile[1].steps[2].stepNum

\* C4: after a successful run the output has one line for each directory with
\* a step log and none for any other entry, and a directory with a log but no
\* configuration file has the empty instruction and all of its steps.
C4_OneLinePerLog ==
    pc = "done" =>
        /\ \A n \in DOMAIN fs :
              Cardinality({i \in 1..Len(outFile) : outFile[i].id = n})
                  = IF HasTraj(fs[n]) THEN 1 ELSE 0
        /\ \A i \in 1..Len(outFile) :
              /\ fs[outFile[i].id].cfg = <<>> => outFile[i].instruction = <<>>
              /\ Len(outFile[i].steps) = Len(LogOf(outFile[i].id))

\* a finished run over a directory with a configuration file and no log, and
\* a directory with a log (here an empty one) and no configuration file
C4_Witness ==
    /\ pc = "done"
    /\ \E n \in DOMAIN fs :
          fs[n].kind = "dir" /\ fs[n].traj = <<>> /\ fs[n].cfg # <<>>
    /\ \E n \in DOMAIN fs :
          HasTraj(fs[n]) /\ fs[n].cfg = <<>> /\ LogOf(n) = <<>>

\* C10: the output file is not touched before every entry has been processed,
\* a run that aborts leaves it as it was, and a finished run leaves in it the
\* lines of all the tasks processed.
C10_OutputAllOrNothing ==
    /\ outFile # PriorOutput => todo = {} /\ pc \in {"write", "done"}
    /\ pc = "aborted" => outFile = PriorOutput
    /\ pc = "done" => outFile = tasks

\* a run that aborted after it had processed a task
C10_Witness == pc = "aborted" /\ Len(tasks) = 1 /\ outFile = PriorOutput

---------------------------------------------------------------------------
(* Properties of the step's action text, on the responses of SpecResp *)

\* what the Action text of a step built from resp has to be
ActionFollows(step, resp) ==
    /\ step.code = CodeSection(resp)
    /\ IF \E i \in 1..Len(step.code) : step.code[i] = Terminate
       THEN step.action = Done
       ELSE step.action = HeaderSection(resp, "hA")

\* C5: a step whose extracted code holds the termination sentinel has the
\* action DONE whatever its Action header says, and any other step has the text
\* of its Action header, empty when there is none.
C5_DoneOverridesAction ==
    /\ pc \in {"rows", "scan"} =>
          \A i \in 1..Len(steps) : ActionFollows(steps[i], Traj[i].response)
    /\ \A k \in 1..Len(tasks) : \A i \in 1..Len(tasks[k].steps) :
          ActionFollows(tasks[k].steps[i], LogOf(tasks[k].id)[i].response)

\* a step with the sentinel in its code whose Action header had a text
C5_Witness ==
    \E k \in 1..Len(tasks) : \E i \in 1..Len(tasks[k].steps) :
        /\ tasks[k].steps[i].action = Done
        /\ HeaderSection(LogOf(tasks[k].id)[i].response, "hA") = <<Prose("p")>>

====
